---------------------------- MODULE Spec2Model ----------------------------
(***************************************************************************)
(* A model of the AI widget backend: src/app.py (API-key authentication    *)
(* with domain locking, the in-memory usage counter, the guarded page      *)
(* fetch, the heuristic service ranking and the HTTP routes) and           *)
(* src/rules.py (the rule-based recommender).                              *)
(*                                                                         *)
(* Python str values are TLA+ strings; the str methods the code uses       *)
(* (lower, strip, startswith, replace, the "in" substring test, slicing)   *)
(* are operators computed character by character.  An Optional[str] is    *)
(* None (the empty tuple) or Some(s) (a one-element tuple).                *)
(***************************************************************************)
EXTENDS Integers, Sequences, FiniteSets, TLC

VARIABLES
    USAGE_COUNTER,  \* app.py:54, client -> requests counted
    served,         \* history: client -> requests answered as that client
    handled,        \* history: requests handled so far
    request,        \* the request (or call) being answered
    response,       \* the response (or return value) to it
    wire,           \* history: the HTTP requests the handler's fetches issued
    fetched,        \* history: the urls the handler called the fetch with
    threads         \* the concurrent server's request handlers

vars == <<USAGE_COUNTER, served, handled, request, response, wire, fetched, threads>>

(***************************************************************************)
(* Python values.                                                          *)
(***************************************************************************)
None == <<>>

Some(s) == <<s>>

\* `x or ""` for an Optional[str]
OrEmpty(x) == IF x = None THEN "" ELSE x[1]

\* no call has returned yet
Pending == [returned |-> FALSE]

\* a call has returned v
Returned(v) == [returned |-> TRUE, value |-> v]

\* the elements of a list
Range(seq) == {seq[i] : i \in 1..Len(seq)}

\* the built-ins min and max
Min(a, b) == IF a <= b THEN a ELSE b

Max(a, b) == IF a >= b THEN a ELSE b

(***************************************************************************)
(* str methods.                                                            *)
(***************************************************************************)
Lowercase ==
    ("A" :> "a") @@ ("B" :> "b") @@ ("C" :> "c") @@ ("D" :> "d") @@
    ("E" :> "e") @@ ("F" :> "f") @@ ("G" :> "g") @@ ("H" :> "h") @@
    ("I" :> "i") @@ ("J" :> "j") @@ ("K" :> "k") @@ ("L" :> "l") @@
    ("M" :> "m") @@ ("N" :> "n") @@ ("O" :> "o") @@ ("P" :> "p") @@
    ("Q" :> "q") @@ ("R" :> "r") @@ ("S" :> "s") @@ ("T" :> "t") @@
    ("U" :> "u") @@ ("V" :> "v") @@ ("W" :> "w") @@ ("X" :> "x") @@
    ("Y" :> "y") @@ ("Z" :> "z")

Whitespace == {" ", "\t", "\n", "\r"}

\* s[i-1:j], a slice: indexes beyond the ends are cut to them
Slice(s, i, j) == SubSeq(s, Max(i, 1), Min(j, Len(s)))

\* s[i-1:i] in Python's 0-based indexing
Char(s, i) == Slice(s, i, i)

\* s[i-1:]
From(s, i) == Slice(s, i, Len(s))

RECURSIVE Lower(_)
\* str.lower(): every character mapped, the string taken half by half
Lower(s) ==
    IF s = "" THEN ""
    ELSE IF Len(s) = 1 THEN (IF s \in DOMAIN Lowercase THEN Lowercase[s] ELSE s)
    ELSE Lower(Slice(s, 1, Len(s) \div 2)) \o Lower(From(s, Len(s) \div 2 + 1))

\* word in text
Contains(text, word) ==
    \E i \in 1..(Len(text) - Len(word) + 1) : SubSeq(text, i, i + Len(word) - 1) = word

\* s.startswith(prefix)
StartsWith(s, prefix) == Slice(s, 1, Len(prefix)) = prefix

RECURSIVE LStrip(_)
LStrip(s) == IF s # "" /\ Char(s, 1) \in Whitespace THEN LStrip(From(s, 2)) ELSE s

RECURSIVE RStrip(_)
RStrip(s) ==
    IF s # "" /\ Char(s, Len(s)) \in Whitespace THEN RStrip(Slice(s, 1, Len(s) - 1)) ELSE s

\* str.strip()
Strip(s) == RStrip(LStrip(s))

RECURSIVE Remove(_, _)
\* s.replace(old, ""): every non-overlapping occurrence, left to right
Remove(s, old) ==
    IF Len(s) < Len(old) THEN s
    ELSE IF StartsWith(s, old) THEN Remove(From(s, Len(old) + 1), old)
    ELSE Char(s, 1) \o Remove(From(s, 2), old)

(***************************************************************************)
(* src/rules.py                                                            *)
(***************************************************************************)
\* the two tests in the other order: the goal rule ahead of the industry rule
recommend_services_GoalFirst(industry, company_size, goal) ==
    IF Lower(goal) = "lead generation"
    THEN <<"Website copywriting", "Landing page creation", "SEO optimization">>
    ELSE IF Lower(industry) = "publishing"
    THEN <<"Copy editing", "Proofreading", "Content distribution">>
    ELSE <<"Content strategy", "Website content audit">>

recommend_services(industry, company_size, goal) ==
    IF Lower(industry) = "publishing"
    THEN <<"Copy editing", "Proofreading", "Content distribution">>
    ELSE IF Lower(goal) = "lead generation"
    THEN <<"Website copywriting", "Landing page creation", "SEO optimization">>
    ELSE <<"Content strategy", "Website content audit">>

\* the arguments the recommender is called with
RuleIndustries == {"publishing", "Publishing", "PUBLISHING", "publishing house", "Retail"}

RuleSizes == {"1-10", "11-50", "51-200", "200+"}

RuleGoals == {"lead generation", "Lead Generation", "LEAD GENERATION",
              "lead generation and sales", "brand awareness"}

Idle == [t \in {} |-> 0]

InitRules ==
    /\ request \in [fn : {"recommend_services"}, industry : RuleIndustries,
                    company_size : RuleSizes, goal : RuleGoals]
    /\ response = Pending
    /\ USAGE_COUNTER = Idle
    /\ served = Idle
    /\ handled = 0
    /\ wire = <<>>
    /\ fetched = <<>>
    /\ threads = Idle

CallRecommendServices ==
    /\ response = Pending
    /\ response' = Returned(recommend_services(request.industry, request.company_size,
                                               request.goal))
    /\ handled' = handled + 1
    /\ UNCHANGED <<USAGE_COUNTER, served, request, wire, fetched, threads>>

NextRules == CallRecommendServices

SpecRules == InitRules /\ [][NextRules]_vars

\* a character with its case folded
Fold(c) == IF c \in DOMAIN Lowercase THEN Lowercase[c] ELSE c

\* a and b are the same string up to the case of their letters
SameIgnoringCase(a, b) ==
    /\ Len(a) = Len(b)
    /\ \A i \in 1..Len(a) : Fold(Char(a, i)) = Fold(Char(b, i))

(***************************************************************************)
(* C9: recommend_services decides by precedence.  An industry equal to     *)
(* "publishing" ignoring case gives the publishing list whatever the goal; *)
(* otherwise a goal equal to "lead generation" ignoring case gives the     *)
(* lead-generation list; otherwise the default list is returned.  The      *)
(* result is fixed by industry and goal alone, so company_size never       *)
(* changes it.                                                             *)
(***************************************************************************)
C9_RulePrecedence ==
    response.returned =>
        response.value =
            CASE SameIgnoringCase(request.industry, "publishing") ->
                    <<"Copy editing", "Proofreading", "Content distribution">>
              [] /\ ~SameIgnoringCase(request.industry, "publishing")
                 /\ SameIgnoringCase(request.goal, "lead generation") ->
                    <<"Website copywriting", "Landing page creation", "SEO optimization">>
              [] OTHER ->
                    <<"Content strategy", "Website content audit">>

\* a publishing industry with a lead-generation goal got the publishing list
C9_Witness ==
    /\ response = Returned(<<"Copy editing", "Proofreading", "Content distribution">>)
    /\ request.industry = "Publishing"
    /\ request.goal = "Lead Generation"

(***************************************************************************)
(* src/app.py: the security helpers and the page fetch.                    *)
(*                                                                         *)
(* The network is an input of a fetch: net.dns gives the kind of address a *)
(* host name resolves to (a host it does not list does not resolve) and    *)
(* net.web gives what the server at a host answers.                        *)
(***************************************************************************)
\* the first index at or after from where pat occurs in s, 0 if none
Find(s, pat, from) ==
    LET at == {i \in from..(Len(s) - Len(pat) + 1) : SubSeq(s, i, i + Len(pat) - 1) = pat}
    IN  IF at = {} THEN 0 ELSE CHOOSE i \in at : \A j \in at : i <= j

\* the last index where pat occurs in s, 0 if none
FindLast(s, pat) ==
    LET at == {i \in 1..(Len(s) - Len(pat) + 1) : SubSeq(s, i, i + Len(pat) - 1) = pat}
    IN  IF at = {} THEN 0 ELSE CHOOSE i \in at : \A j \in at : i >= j

\* the first index of s holding one of the characters, Len(s) + 1 if none
FirstOf(s, chars) ==
    LET at == {i \in 1..Len(s) : Char(s, i) \in chars}
    IN  IF at = {} THEN Len(s) + 1 ELSE CHOOSE i \in at : \A j \in at : i <= j

\* what follows "://" in a url
AfterScheme(url) == From(url, Find(url, "://", 1) + 3)

\* the netloc of a url: what follows "://", up to the path, query or fragment
Netloc(url) == Slice(AfterScheme(url), 1, FirstOf(AfterScheme(url), {"/", "?", "#"}) - 1)

\* a netloc without its user info
HostPort(netloc) == From(netloc, FindLast(netloc, "@") + 1)

\* a host:port without its port, lowered; None when empty
HostName(hostport) ==
    IF FirstOf(hostport, {":"}) = 1 THEN None
    ELSE Some(Lower(Slice(hostport, 1, FirstOf(hostport, {":"}) - 1)))

\* urlparse(url) for a url that starts with a scheme and "://": the lowered
\* scheme, .hostname (user info and port cut, lowered, None when empty;
\* bracketed IPv6 literals are not modelled) and the rest without its fragment
UrlParse(url) ==
    [scheme |-> Lower(Slice(url, 1, Find(url, "://", 1) - 1)),
     hostname |-> HostName(HostPort(Netloc(url))),
     rest |-> Slice(AfterScheme(url), 1, FirstOf(AfterScheme(url), {"#"}) - 1)]

\* re.match(r"^https?://", url, re.I)
HasHttpScheme(url) ==
    StartsWith(Lower(url), "http://") \/ StartsWith(Lower(url), "https://")

\* socket.gethostbyname(host): the kind of the address, "fail" on an error
Resolve(net, host) == IF host \in DOMAIN net.dns THEN net.dns[host] ELSE "fail"

\* _is_private_ip(ip), on the kind of the address
IsPrivateIp(ip) == ip \in {"private", "loopback", "link_local", "reserved", "multicast"}

\* a raised exception and a returned value
Raise(text) == [ok |-> FALSE, error |-> text]

Return(v) == [ok |-> TRUE, value |-> v]

\* url.strip(), with "https://" put in front when no http(s) scheme leads it
WithScheme(url) ==
    IF ~HasHttpScheme(Strip(url)) THEN "https://" \o Strip(url) ELSE Strip(url)

\* the checks of _safe_http_url on the parsed url p
CheckParsed(p, net) ==
    IF p.scheme \notin {"http", "https"}
    THEN Raise("URL must start with http:// or https://")
    ELSE IF p.hostname = None THEN Raise("URL must include a hostname")
    ELSE IF p.hostname[1] \in {"localhost", "127.0.0.1", "0.0.0.0"}
    THEN Raise("Localhost URLs are not allowed")
    \* a failed lookup raises, and so does the private-address error raised
    \* inside the try: the except clause replaces both
    ELSE IF Resolve(net, p.hostname[1]) = "fail" \/ IsPrivateIp(Resolve(net, p.hostname[1]))
    THEN Raise("Could not resolve hostname safely")
    ELSE Return(p.scheme \o "://" \o p.rest)

\* _safe_http_url(url): the normalized url, or the ValueError raised
SafeHttpUrl(url, net) ==
    IF url = "" THEN Raise("Empty URL") ELSE CheckParsed(UrlParse(WithScheme(url)), net)

\* the str() of the status codes the servers answer with
StatusText == (200 :> "200") @@ (404 :> "404") @@ (500 :> "500") @@ (503 :> "503")

\* text[:max_chars]
max_chars == 200000

\* the redirects the HTTP client follows before it gives up
MaxRedirects == 2

\* the request for url, sent to the server at its host: the server's answer,
\* or no connection when the name does not resolve
Send(url, net) ==
    LET host == OrEmpty(UrlParse(url).hostname)
    IN  IF Resolve(net, host) = "fail" THEN [kind |-> "unreachable"] ELSE net.web[host]

RECURSIVE ClientGet(_, _, _, _)
\* client.get(url) with follow_redirects=True: each request is sent to the
\* host of the url as it stands, the Location of a redirect included; sent
\* lists the requests issued
ClientGet(url, net, hops, sent) ==
    CASE Send(url, net).kind = "unreachable" ->
            [ok |-> FALSE, error |-> "[Errno -2] Name or service not known", sent |-> sent]
      [] Send(url, net).kind = "timeout" ->
            [ok |-> FALSE, error |-> "", sent |-> Append(sent, url)]
      [] Send(url, net).kind = "redirect" ->
            IF hops = MaxRedirects
            THEN [ok |-> FALSE, error |-> "Exceeded maximum allowed redirects.",
                  sent |-> Append(sent, url)]
            ELSE ClientGet(Send(url, net).location, net, hops + 1, Append(sent, url))
      [] OTHER ->
            [ok |-> TRUE, status_code |-> Send(url, net).status,
             text |-> Send(url, net).html, sent |-> Append(sent, url)]

\* the end of fetch_public_page_text, on the outcome r of client.get
CheckStatus(r) ==
    IF ~r.ok THEN r
    ELSE IF r.status_code >= 400
    THEN [ok |-> FALSE, error |-> "Website returned " \o StatusText[r.status_code],
          sent |-> r.sent]
    ELSE [ok |-> TRUE, value |-> Slice(r.text, 1, max_chars),
          sent |-> r.sent]

\* fetch_public_page_text, on the outcome of _safe_http_url
FetchSafeUrl(safe_url, net) ==
    IF ~safe_url.ok THEN [ok |-> FALSE, error |-> safe_url.error, sent |-> <<>>]
    ELSE CheckStatus(ClientGet(safe_url.value, net, 0, <<>>))

\* fetch_public_page_text(url): the page text or the exception raised, and
\* the requests issued on the way
FetchPublicPageText(url, net) == FetchSafeUrl(SafeHttpUrl(url, net), net)

\* the pages the servers hold
PageExample ==
    "<html><head><TITLE>Example <b>SEO</b>\n  Agency</TITLE>"
    \o "<meta name=\"description\" content=\"Landing page  copywriting\"></head>"
    \o "<body><script>var cta = 'google ads';</script><h1>Book a call</h1>"
    \o "<p>CRM funnel</p></body></html>"

PageAcme ==
    "<title>Acme</title><meta name='description' content='Email marketing'>"
    \o "<style>p { color: red }</style><p>Newsletter &amp; drip</p>"

PagePlain == "Paid search and PPC"

PageAdmin == "<title>Admin console</title><p>internal</p>"

\* a server's answers
Page(html) == [kind |-> "response", status |-> 200, html |-> html]

Status(code) == [kind |-> "response", status |-> code, html |-> "<h1>Error</h1>"]

Redirect(location) == [kind |-> "redirect", location |-> location]

Timeout == [kind |-> "timeout"]

\* name resolution: public sites, an intranet host, the metadata address and
\* the loopback names
Dns ==
    [h \in {"example.com", "acme.com", "user.github.io", "acme.com.attacker.net",
            "notacme.com"} |-> "public"]
    @@ ("intranet.corp" :> "private") @@ ("169.254.169.254" :> "link_local")
    @@ ("localhost" :> "loopback") @@ ("127.0.0.1" :> "loopback")

\* what each host serves when the web is healthy
Web ==
    ("example.com" :> Page(PageExample)) @@ ("acme.com" :> Page(PageAcme))
    @@ ("user.github.io" :> Page(PagePlain)) @@ ("acme.com.attacker.net" :> Page(PagePlain))
    @@ ("notacme.com" :> Page(PagePlain)) @@ ("intranet.corp" :> Page(PageAdmin))
    @@ ("169.254.169.254" :> Page(PageAdmin)) @@ ("localhost" :> Page(PageAdmin))
    @@ ("127.0.0.1" :> Page(PageAdmin))

NetHealthy == [dns |-> Dns, web |-> Web]

\* every public site fails: an error status, a timeout, no name
NetOutage ==
    [dns |-> [h \in DOMAIN Dns \ {"user.github.io"} |-> Dns[h]],
     web |-> ("example.com" :> Status(503)) @@ ("acme.com" :> Timeout)
             @@ ("acme.com.attacker.net" :> Status(404)) @@ ("notacme.com" :> Timeout)
             @@ Web]

\* public sites that answer with a redirect
NetRedirectInternal ==
    [dns |-> Dns,
     web |-> ("example.com" :> Redirect("http://169.254.169.254/latest/meta-data/"))
             @@ ("acme.com" :> Redirect("http://intranet.corp/admin")) @@ Web]

NetRedirectPublic ==
    [dns |-> Dns,
     web |-> ("example.com" :> Redirect("https://acme.com/"))
             @@ ("acme.com" :> Redirect("https://user.github.io/")) @@ Web]

NetRedirectLoop ==
    [dns |-> Dns,
     web |-> ("example.com" :> Redirect("https://example.com/"))
             @@ ("acme.com" :> Redirect("http://localhost:8080/")) @@ Web]

\* the networks, by name
Nets ==
    ("healthy" :> NetHealthy) @@ ("outage" :> NetOutage)
    @@ ("redirect-internal" :> NetRedirectInternal)
    @@ ("redirect-public" :> NetRedirectPublic) @@ ("redirect-loop" :> NetRedirectLoop)

FetchNets == DOMAIN Nets

\* the urls a fetch is asked for
FetchUrls == {"", "example.com", "  https://Example.com/pricing#plans ",
              "HTTP://acme.com", "https://user@acme.com:8443/x?y=1", "https://",
              "http://localhost:8000", "http://127.0.0.1/", "http://0.0.0.0",
              "http://intranet.corp/", "http://169.254.169.254/latest",
              "https://nowhere.invalid", "ftp://example.com", "https://user.github.io"}

InitFetch ==
    /\ request \in [fn : {"fetch_public_page_text"}, url : FetchUrls, net : FetchNets]
    /\ response = Pending
    /\ USAGE_COUNTER = Idle
    /\ served = Idle
    /\ handled = 0
    /\ wire = <<>>
    /\ fetched = <<>>
    /\ threads = Idle

CallFetchPublicPageText ==
    /\ response = Pending
    /\ LET r == FetchPublicPageText(request.url, Nets[request.net])
       IN  /\ response' = Returned(IF r.ok THEN Return(r.value) ELSE Raise(r.error))
           /\ wire' = r.sent
    /\ fetched' = <<request.url>>
    /\ handled' = handled + 1
    /\ UNCHANGED <<USAGE_COUNTER, served, request, threads>>

NextFetch == CallFetchPublicPageText

SpecFetch == InitFetch /\ [][NextFetch]_vars

\* url is an http or https url whose host is not localhost and resolves to a
\* public address
PublicTarget(url, net) ==
    /\ UrlParse(url).scheme \in {"http", "https"}
    /\ UrlParse(url).hostname # None
    /\ OrEmpty(UrlParse(url).hostname) # "localhost"
    /\ Resolve(net, OrEmpty(UrlParse(url).hostname)) = "public"

(***************************************************************************)
(* C6: private-address rejection.  Every HTTP request that                 *)
(* fetch_public_page_text issues, the first one and every redirect it      *)
(* follows, goes to an http(s) url whose host is not localhost and         *)
(* resolves to a public address; and a url that fails this check (or does  *)
(* not resolve) raises an error before any request is sent.                *)
(***************************************************************************)
C6_PrivateAddressRejection ==
    response.returned =>
        /\ \A i \in 1..Len(wire) : PublicTarget(wire[i], Nets[request.net])
        /\ (request.url = "" \/ ~PublicTarget(WithScheme(request.url), Nets[request.net]))
              => (wire = <<>> /\ ~response.value.ok)

(***************************************************************************)
(* src/app.py: extract_signals_from_html.  The regular expressions are     *)
(* computed on the page text; low is the page lowered, for the searches    *)
(* made with re.I.                                                         *)
(***************************************************************************)
RECURSIVE CollapseRange(_, _, _)
\* re.sub(r"\s+", " ", s) on s[lo..hi]: the first character of a run of
\* whitespace becomes a space, the others go
CollapseRange(s, lo, hi) ==
    IF lo > hi THEN ""
    ELSE IF lo = hi
    THEN (IF Char(s, lo) \notin Whitespace THEN Char(s, lo)
          ELSE IF lo > 1 /\ Char(s, lo - 1) \in Whitespace THEN "" ELSE " ")
    ELSE CollapseRange(s, lo, (lo + hi) \div 2) \o CollapseRange(s, (lo + hi) \div 2 + 1, hi)

CollapseSpaces(s) == CollapseRange(s, 1, Len(s))

RECURSIVE StripTags(_, _, _)
\* re.sub(r"<.*?>", repl, s): from each "<" to the next ">"; without re.S
\* (dotall FALSE) a tag does not run over a line break
StripTags(s, repl, dotall) ==
    IF Find(s, "<", 1) = 0 \/ Find(s, ">", Find(s, "<", 1) + 1) = 0 THEN s
    ELSE IF ~dotall /\ Contains(Slice(s, Find(s, "<", 1), Find(s, ">", Find(s, "<", 1) + 1)),
                                "\n")
    THEN Slice(s, 1, Find(s, "<", 1)) \o StripTags(From(s, Find(s, "<", 1) + 1), repl, dotall)
    ELSE Slice(s, 1, Find(s, "<", 1) - 1) \o repl
         \o StripTags(From(s, Find(s, ">", Find(s, "<", 1) + 1) + 1), repl, dotall)

\* where the ">" that ends the first "<tag" stands, 0 if none
OpenEnd(low, tag) ==
    IF Find(low, "<" \o tag, 1) = 0 THEN 0
    ELSE Find(low, ">", Find(low, "<" \o tag, 1) + Len(tag) + 1)

\* where the first "</tag>" after the end of the first "<tag ...>" stands
CloseStart(low, tag) ==
    IF OpenEnd(low, tag) = 0 THEN 0
    ELSE Find(low, "</" \o tag \o ">", OpenEnd(low, tag) + 1)

\* the title: re.search(r"<title[^>]*>(.*?)</title>", html, re.I | re.S)
Title(html, low) ==
    IF CloseStart(low, "title") = 0 THEN ""
    ELSE Strip(CollapseSpaces(StripTags(
             Slice(html, OpenEnd(low, "title") + 1, CloseStart(low, "title") - 1),
             "", FALSE)))

Quotes == {"\"", "'"}

\* pat stands at index i of low, between two quote characters
QuotedAt(low, i, pat) ==
    /\ Slice(low, i, i + Len(pat) - 1) = pat
    /\ Char(low, i + Len(pat)) \in Quotes

\* the end of the region a "<meta" at i may match in: the next ">"
MetaEnd(low, i) == IF Find(low, ">", i + 5) = 0 THEN Len(low) + 1 ELSE Find(low, ">", i + 5)

\* where name=["']description["'] may stand for a "<meta" at i
MetaNames(low, i) ==
    {n \in (i + 6)..(MetaEnd(low, i) - 18) :
        QuotedAt(low, n, "name=") /\ QuotedAt(low, n + 6, "description")}

\* where content=["'] may stand for a "<meta" at i: after a name attribute,
\* inside the tag, with a closing quote somewhere after it
MetaContents(low, i) ==
    {c \in (i + 6)..(MetaEnd(low, i) - 9) :
        /\ QuotedAt(low, c, "content=")
        /\ \E n \in MetaNames(low, i) : n + 18 <= c
        /\ \E q \in (c + 9)..Len(low) : Char(low, q) \in Quotes}

\* the "<meta" starts that match
MetaStarts(low) ==
    {i \in 1..Len(low) : Slice(low, i, i + 4) = "<meta" /\ MetaContents(low, i) # {}}

\* the least and the greatest of a set of numbers
Least(S) == CHOOSE x \in S : \A y \in S : x <= y

Greatest(S) == CHOOSE x \in S : \A y \in S : x >= y

\* the captured content, which starts at index c and runs to the next quote
CapturedFrom(html, c) == Slice(html, c, c + FirstOf(From(html, c), Quotes) - 2)

\* the meta description: re.search(r'<meta[^>]+name=["\']description["\']
\* [^>]*content=["\'](.*?)["\']', html, re.I | re.S).  The leftmost start
\* wins, and the greedy [^>]* takes the last content attribute of the tag
Description(html, low) ==
    IF MetaStarts(low) = {} THEN ""
    ELSE Strip(CollapseSpaces(
             CapturedFrom(html, Greatest(MetaContents(low, Least(MetaStarts(low)))) + 9)))

RECURSIVE RemoveBlocks(_, _, _)
\* re.sub(r"(?is)<tag.*?>.*?</tag>", " ", html)
RemoveBlocks(html, low, tag) ==
    IF CloseStart(low, tag) = 0 THEN html
    ELSE Slice(html, 1, Find(low, "<" \o tag, 1) - 1) \o " "
         \o RemoveBlocks(From(html, CloseStart(low, tag) + Len(tag) + 3),
                         From(low, CloseStart(low, tag) + Len(tag) + 3), tag)

\* html without its script blocks
NoScript(html) == RemoveBlocks(html, Lower(html), "script")

\* ... and without its style blocks
NoStyle(html) == RemoveBlocks(NoScript(html), Lower(NoScript(html)), "style")

\* ... and without its noscript blocks
Cleaned(html) == RemoveBlocks(NoStyle(html), Lower(NoStyle(html)), "noscript")

\* the visible text: tags to spaces, whitespace collapsed, stripped
VisibleText(html) == Strip(CollapseSpaces(StripTags(Cleaned(html), " ", TRUE)))

\* text[:6000]
snippet_chars == 6000

extract_signals_from_html(html) ==
    [title |-> Title(html, Lower(html)),
     description |-> Description(html, Lower(html)),
     snippet |-> Slice(VisibleText(html), 1, snippet_chars)]

(***************************************************************************)
(* src/app.py: the ranking logic.                                          *)
(***************************************************************************)
SERVICE_LIBRARY == <<
    [service |-> "Website copywriting",
     keywords |-> <<"copy", "headline", "messaging", "positioning", "brand voice",
                    "landing page">>,
     fits_goals |-> <<"leads", "lead generation", "conversion", "sales">>],
    [service |-> "Landing page creation",
     keywords |-> <<"landing", "conversion", "cta", "signup", "book a call", "funnel">>,
     fits_goals |-> <<"leads", "lead generation", "conversion", "sales">>],
    [service |-> "SEO optimization",
     keywords |-> <<"seo", "search", "keywords", "ranking", "google", "organic traffic">>,
     fits_goals |-> <<"traffic", "leads", "growth">>],
    [service |-> "Lead funnel optimization",
     keywords |-> <<"crm", "pipeline", "funnel", "lead", "automation", "forms">>,
     fits_goals |-> <<"leads", "lead generation", "conversion">>],
    [service |-> "Paid ads setup",
     keywords |-> <<"google ads", "meta ads", "facebook ads", "ppc", "paid search">>,
     fits_goals |-> <<"leads", "sales", "growth">>],
    [service |-> "Email nurture sequence",
     keywords |-> <<"email", "newsletter", "nurture", "drip", "automation">>,
     fits_goals |-> <<"leads", "conversion", "retention">>] >>

OFFERING_HINTS == <<
    <<"seo", "SEO optimization">>,
    <<"paid ads", "Paid ads setup">>,
    <<"google ads", "Paid ads setup">>,
    <<"facebook ads", "Paid ads setup">>,
    <<"copywriting", "Website copywriting">>,
    <<"landing page", "Landing page creation">>,
    <<"email marketing", "Email nurture sequence">> >>

\* d.get(k, "")
Get(d, k) == IF k \in DOMAIN d THEN d[k] ELSE ""

\* the signals of a page that was not fetched
EmptySignals == [title |-> "", description |-> "", snippet |-> ""]

\* " ".join([...]).lower() over the six signal texts
Corpus(target_signals, embed_signals) ==
    Lower(Get(target_signals, "title") \o " " \o Get(target_signals, "description")
          \o " " \o Get(target_signals, "snippet") \o " " \o Get(embed_signals, "title")
          \o " " \o Get(embed_signals, "description") \o " "
          \o Get(embed_signals, "snippet"))

\* the services whose hint word the corpus holds
AlreadyOffers(corpus) ==
    {OFFERING_HINTS[i][2] : i \in {j \in 1..Len(OFFERING_HINTS) :
                                      Contains(corpus, OFFERING_HINTS[j][1])}}

\* the keyword loop: how many of the item's keywords the corpus holds
Hits(item, corpus) ==
    Cardinality({i \in 1..Len(item.keywords) : Contains(corpus, Lower(item.keywords[i]))})

\* the keyword boost with its cap dropped: hits * 6
ServiceScore_NoCap(item, industry_l, goal_l, corpus, already_offers) ==
    LET base == 30
        withIndustry ==
            IF Contains(industry_l, "marketing") \/ Contains(industry_l, "agency")
            THEN base + 10 ELSE base
        withGoal ==
            IF \E g \in Range(item.fits_goals) : Contains(goal_l, g)
            THEN withIndustry + 25 ELSE withIndustry
        hits == Hits(item, corpus)
        withHits == IF hits # 0 THEN withGoal + hits * 6 ELSE withGoal
        withOffer == IF item.service \in already_offers THEN withHits - 18 ELSE withHits
    IN  Max(5, Min(99, withOffer))

\* the score of one library item, accumulated as the loop body does
ServiceScore(item, industry_l, goal_l, corpus, already_offers) ==
    LET base == 30
        withIndustry ==
            IF Contains(industry_l, "marketing") \/ Contains(industry_l, "agency")
            THEN base + 10 ELSE base
        withGoal ==
            IF \E g \in Range(item.fits_goals) : Contains(goal_l, g)
            THEN withIndustry + 25 ELSE withIndustry
        hits == Hits(item, corpus)
        withHits == IF hits # 0 THEN withGoal + Min(25, hits * 6) ELSE withGoal
        withOffer == IF item.service \in already_offers THEN withHits - 18 ELSE withHits
    IN  Max(5, Min(99, withOffer))

\* the reasons of one library item, in the order they are appended (the goal
\* is quoted with ASCII quotes here)
Reasons(item, goal, industry_l, goal_l, corpus, already_offers) ==
    (IF Contains(industry_l, "marketing") \/ Contains(industry_l, "agency")
     THEN <<"Industry suggests marketing-led growth.">> ELSE <<>>)
    \o (IF \E g \in Range(item.fits_goals) : Contains(goal_l, g)
        THEN <<"Matches your goal: '" \o goal \o "'.">> ELSE <<>>)
    \o (IF Hits(item, corpus) # 0
        THEN <<"Website content indicates this would be impactful.">> ELSE <<>>)
    \o (IF item.service \in already_offers
        THEN <<"Your website already mentions offering something similar.">> ELSE <<>>)

RECURSIVE JoinSpace(_)
\* " ".join(reasons)
JoinSpace(seq) ==
    IF seq = <<>> THEN ""
    ELSE IF Len(seq) = 1 THEN seq[1]
    ELSE seq[1] \o " " \o JoinSpace(Tail(seq))

\* the results list before it is sorted
Results(industry, goal, target_signals, embed_signals) ==
    LET industry_l == Lower(industry)
        goal_l == Lower(goal)
        corpus == Corpus(target_signals, embed_signals)
        already_offers == AlreadyOffers(corpus)
    IN  [i \in 1..Len(SERVICE_LIBRARY) |->
            LET item == SERVICE_LIBRARY[i]
                reasons == Reasons(item, goal, industry_l, goal_l, corpus, already_offers)
            IN  [service |-> item.service,
                 score |-> ServiceScore(item, industry_l, goal_l, corpus, already_offers),
                 why |-> IF reasons # <<>> THEN JoinSpace(reasons)
                         ELSE "Based on the inputs provided."]]

\* x placed after the entries of the sorted list that score less than it, and
\* before those that score no less: the ascending order
InsertAsc(sorted, x) ==
    LET n == Cardinality({i \in 1..Len(sorted) : sorted[i].score < x.score})
    IN  Slice(sorted, 1, n) \o <<x>> \o Slice(sorted, n + 1, Len(sorted))

RECURSIVE SortAsc(_)
SortAsc(results) ==
    IF results = <<>> THEN <<>>
    ELSE InsertAsc(SortAsc(Slice(results, 1, Len(results) - 1)), results[Len(results)])

\* x placed after the entries of the sorted list that score no less than it
InsertDesc(sorted, x) ==
    LET n == Cardinality({i \in 1..Len(sorted) : sorted[i].score >= x.score})
    IN  Slice(sorted, 1, n) \o <<x>> \o Slice(sorted, n + 1, Len(sorted))

RECURSIVE SortDesc(_)
\* results.sort(key=score, reverse=True): stable, entries of equal score keep
\* their order
SortDesc(results) ==
    IF results = <<>> THEN <<>>
    ELSE InsertDesc(SortDesc(Slice(results, 1, Len(results) - 1)), results[Len(results)])

\* the sort without reverse=True: low to high
rank_services_Ascending(industry, goal, target_signals, embed_signals) ==
    Slice(SortAsc(Results(industry, goal, target_signals, embed_signals)), 1, 5)

rank_services(industry, goal, target_signals, embed_signals) ==
    Slice(SortDesc(Results(industry, goal, target_signals, embed_signals)), 1, 5)

\* the arguments the ranking is called with
RankIndustries == {"Marketing Agency", "Digital AGENCY", "SaaS", ""}

RankGoals == {"Lead Generation", "More organic Traffic", "Sales and retention",
              "brand awareness"}

RankTargetSignals == {
    EmptySignals,
    [title |-> "Acme SEO Agency",
     description |-> "SEO, Google Ads and email marketing for growth",
     snippet |-> "We lift your search ranking on Google with keywords and organic traffic"],
    [title |-> "Bright Funnel",
     description |-> "Landing page copywriting",
     snippet |-> "Book a call: CRM pipeline automation, a signup CTA, a newsletter drip"],
    [title |-> "Growth studio", description |-> "", snippet |-> "We run paid"] }

RankEmbedSignals == {
    EmptySignals,
    [title |-> "Ads and PPC", description |-> "Facebook Ads", snippet |-> "Meta ads"],
    [title |-> "Email Marketing Weekly"] }

InitRank ==
    /\ request \in [fn : {"rank_services"}, industry : RankIndustries, goal : RankGoals,
                    target_signals : RankTargetSignals, embed_signals : RankEmbedSignals]
    /\ response = Pending
    /\ USAGE_COUNTER = Idle
    /\ served = Idle
    /\ handled = 0
    /\ wire = <<>>
    /\ fetched = <<>>
    /\ threads = Idle

CallRankServices ==
    /\ response = Pending
    /\ response' = Returned(rank_services(request.industry, request.goal,
                                          request.target_signals, request.embed_signals))
    /\ handled' = handled + 1
    /\ UNCHANGED <<USAGE_COUNTER, served, request, wire, fetched, threads>>

NextRank == CallRankServices

SpecRank == InitRank /\ [][NextRank]_vars

\* word occurs in text, the case of letters ignored
ContainsIgnoringCase(text, word) ==
    \E i \in 1..(Len(text) - Len(word) + 1) :
        SameIgnoringCase(Slice(text, i, i + Len(word) - 1), word)

\* 1 for a true condition, 0 for a false one
Bit(b) == IF b THEN 1 ELSE 0

\* the combined site text of the call: the six signal texts, a space between
SiteText ==
    LET t == request.target_signals
        e == request.embed_signals
        F(d, k) == IF k \in DOMAIN d THEN d[k] ELSE ""
    IN  F(t, "title") \o " " \o F(t, "description") \o " " \o F(t, "snippet") \o " "
        \o F(e, "title") \o " " \o F(e, "description") \o " " \o F(e, "snippet")

\* the library item of a service name
ItemOf(service) == CHOOSE item \in Range(SERVICE_LIBRARY) : item.service = service

\* the site text holds an offering hint mapped to the service
Mentions(service) ==
    \E h \in Range(OFFERING_HINTS) : h[2] = service /\ ContainsIgnoringCase(SiteText, h[1])

\* the score the formula gives a service, with or without the mention penalty
FormulaScore(service, mention) ==
    LET item == ItemOf(service)
        industryBoost ==
            Bit(ContainsIgnoringCase(request.industry, "marketing")
                \/ ContainsIgnoringCase(request.industry, "agency"))
        goalBoost ==
            Bit(\E g \in Range(item.fits_goals) : ContainsIgnoringCase(request.goal, g))
        found == {k \in Range(item.keywords) : ContainsIgnoringCase(SiteText, k)}
        raw == 30 + 10 * industryBoost + 25 * goalBoost + Min(25, 6 * Cardinality(found))
               - 18 * Bit(mention)
    IN  IF raw < 5 THEN 5 ELSE IF raw > 99 THEN 99 ELSE raw

(***************************************************************************)
(* C5: rank_services returns exactly 5 entries naming 5 distinct services  *)
(* of the 6-entry SERVICE_LIBRARY, ordered by score non-increasing, and    *)
(* the one service left out scores no more than any returned entry.        *)
(***************************************************************************)
C5_TopFive ==
    response.returned =>
        LET ranked == response.value
            names == {ranked[i].service : i \in 1..Len(ranked)}
            library == {SERVICE_LIBRARY[i].service : i \in 1..Len(SERVICE_LIBRARY)}
        IN  /\ Len(SERVICE_LIBRARY) = 6
            /\ Len(ranked) = 5
            /\ Cardinality(names) = 5
            /\ names \subseteq library
            /\ \A i \in 1..4 : ranked[i].score >= ranked[i + 1].score
            /\ \A left \in library \ names : \A i \in 1..5 :
                  FormulaScore(left, Mentions(left)) <= ranked[i].score

\* a ranking whose scores differ, the service left out scoring strictly less
\* than the last one returned
C5_Witness ==
    /\ response.returned
    /\ response.value[1].score > response.value[5].score
    /\ \E item \in Range(SERVICE_LIBRARY) :
          /\ \A i \in 1..5 : response.value[i].service # item.service
          /\ FormulaScore(item.service, Mentions(item.service)) < response.value[5].score

(***************************************************************************)
(* C8: every score rank_services reports equals                            *)
(*   clamp(5, 99, 30 + 10*[industry has "marketing" or "agency"]           *)
(*                + 25*[goal has one of the service's fits_goals]          *)
(*                + min(25, 6 * keywords of the service in the site text)  *)
(*                - 18*[site text has an offering hint of the service])    *)
(* with case-insensitive substring tests; it is an integer in 5..99; and a *)
(* service the site mentions scores exactly 18 below the same formula      *)
(* without the mention.                                                    *)
(***************************************************************************)
C8_ScoreFormula ==
    response.returned =>
        \A i \in 1..Len(response.value) :
            LET r == response.value[i]
            IN  /\ r.score = FormulaScore(r.service, Mentions(r.service))
                /\ r.score \in 5..99
                /\ Mentions(r.service) => r.score = FormulaScore(r.service, FALSE) - 18

\* a reported service with five or more keywords in the site text (the capped
\* boost) that the site also mentions offering
C8_Witness ==
    /\ response.returned
    /\ \E i \in 1..Len(response.value) :
          LET r == response.value[i]
          IN  /\ Mentions(r.service)
              /\ Cardinality({k \in Range(ItemOf(r.service).keywords) :
                                 ContainsIgnoringCase(SiteText, k)}) >= 5
              /\ r.score = 30 + 10 + 25 + 25 - 18

(***************************************************************************)
(* src/app.py: the API keys, the usage counter and verify_api_key.         *)
(***************************************************************************)
\* the registry, in the order of the dict
API_KEYS == <<
    [client |-> "acme", key |-> "cust_live_acme_9xK2", domains |-> <<"acme.com">>,
     branding |-> [name |-> "Acme AI", logo_url |-> "", primary |-> "#0b1020",
                   grad1 |-> "#1e50a0", grad2 |-> "#28aabe"]],
    [client |-> "demo", key |-> "cust_demo_123", domains |-> <<"localhost", "github.io">>,
     branding |-> [name |-> "AI Widget", logo_url |-> "", primary |-> "#0b1020",
                   grad1 |-> "#1e50a0", grad2 |-> "#28aabe"]] >>

\* USAGE_COUNTER[client], of a defaultdict(int): 0 for a key it does not hold
Count(counter, client) == IF client \in DOMAIN counter THEN counter[client] ELSE 0

\* the counter after a += 1 that forgets to store under the client's key
Bump_Dropped(counter, client) ==
    [c \in DOMAIN counter \cup {client} |-> Count(counter, c)]

\* the counter after USAGE_COUNTER[client] += 1
Bump(counter, client) ==
    [c \in DOMAIN counter \cup {client} |->
        IF c = client THEN Count(counter, c) + 1 ELSE counter[c]]

\* raise HTTPException(status_code, detail)
HTTPException(status_code, detail) ==
    [ok |-> FALSE, status |-> status_code, detail |-> detail]

\* authorization.replace("Bearer ", "").strip()
BearerKey(authorization) == Strip(Remove(authorization, "Bearer "))

\* the domain test applied only when the request carries an origin
DomainAllowed_WhenPresent(data, origin) ==
    \/ ~(data.domains # <<>> /\ "*" \notin Range(data.domains))
    \/ origin = ""
    \/ \E d \in Range(data.domains) : Contains(origin, Lower(d))

\* the domain test of a registry entry: passed when the list is empty or has
\* "*", or when the lowered origin holds one of the lowered domains
DomainAllowed(data, origin) ==
    \/ ~(data.domains # <<>> /\ "*" \notin Range(data.domains))
    \/ \E d \in Range(data.domains) : Contains(origin, Lower(d))

\* the registry entries whose key is the presented one
Matching(key) == {i \in 1..Len(API_KEYS) : API_KEYS[i].key = key}

\* the loop over the registry: the first entry with the key decides
CheckKey(key, origin) ==
    IF Matching(key) = {} THEN HTTPException(403, "Invalid API key")
    ELSE IF ~DomainAllowed(API_KEYS[Least(Matching(key))], origin)
    THEN HTTPException(403, "Domain not allowed for this API key")
    ELSE Return(API_KEYS[Least(Matching(key))].client)

\* the prefix test ahead of the emptiness test
verify_api_key_FormatFirst(authorization, origin) ==
    IF ~StartsWith(OrEmpty(authorization), "Bearer ")
    THEN HTTPException(401, "Invalid auth format")
    ELSE CheckKey(BearerKey(authorization[1]), Lower(OrEmpty(origin)))

\* verify_api_key, without the += 1 the caller's action states: the client
\* returned or the HTTPException raised.  authorization and origin are the
\* Optional[str] headers
verify_api_key(authorization, origin) ==
    IF authorization = None \/ authorization = Some("")
    THEN HTTPException(401, "Missing API key")
    ELSE IF ~StartsWith(authorization[1], "Bearer ")
    THEN HTTPException(401, "Invalid auth format")
    ELSE CheckKey(BearerKey(authorization[1]), Lower(OrEmpty(origin)))

(***************************************************************************)
(* src/app.py: the routes.                                                 *)
(***************************************************************************)
\* the signals and the error text a fetch leaves in recommend
SignalsOf(fetch) == IF fetch.ok THEN extract_signals_from_html(fetch.value) ELSE EmptySignals

ErrorOf(fetch) == IF fetch.ok THEN "" ELSE fetch.error

\* the embed fetch when the origin is empty: not made, no signals, no error
NotFetched == [ok |-> FALSE, error |-> "", sent |-> <<>>]

\* .get("branding", None) of the client's registry entry
BrandingOf(client) ==
    (CHOOSE data \in Range(API_KEYS) : data.client = client).branding

\* the response of recommend, given how its two fetches ended
RecommendResponse(client, req, target, embed) ==
    [status |-> 200,
     body |-> [client |-> client,
               branding |-> BrandingOf(client),
               ranked_services |->
                   rank_services(req.data.industry, req.data.goal,
                                 SignalsOf(target), SignalsOf(embed)),
               debug |-> [origin |-> OrEmpty(req.origin),
                          target_fetch_error |-> ErrorOf(target),
                          embed_fetch_error |-> ErrorOf(embed)]]]

\* recommend without its first try/except: a failed target fetch ends the
\* request
RecommendOutcome_NoCatch(client, req) ==
    IF ~FetchPublicPageText(req.data.website_url, Nets[req.net]).ok
    THEN [response |-> [status |-> 500, detail |-> "Internal Server Error"],
          wire |-> FetchPublicPageText(req.data.website_url, Nets[req.net]).sent,
          fetched |-> <<req.data.website_url>>]
    ELSE [response |->
              RecommendResponse(client, req,
                  FetchPublicPageText(req.data.website_url, Nets[req.net]),
                  IF OrEmpty(req.origin) # ""
                  THEN FetchPublicPageText(OrEmpty(req.origin), Nets[req.net]) ELSE NotFetched),
          wire |-> FetchPublicPageText(req.data.website_url, Nets[req.net]).sent
                   \o (IF OrEmpty(req.origin) # ""
                       THEN FetchPublicPageText(OrEmpty(req.origin), Nets[req.net]).sent
                       ELSE <<>>),
          fetched |-> <<req.data.website_url>>
                      \o (IF OrEmpty(req.origin) # "" THEN <<OrEmpty(req.origin)>> ELSE <<>>)]

\* recommend after verify_api_key: the target fetch, then the embed fetch
\* when the origin is not empty, each in its own try/except; then the
\* ranking and the response
RecommendOutcome(client, req) ==
    [response |->
         RecommendResponse(client, req,
             FetchPublicPageText(req.data.website_url, Nets[req.net]),
             IF OrEmpty(req.origin) # ""
             THEN FetchPublicPageText(OrEmpty(req.origin), Nets[req.net]) ELSE NotFetched),
     wire |-> FetchPublicPageText(req.data.website_url, Nets[req.net]).sent
              \o (IF OrEmpty(req.origin) # ""
                  THEN FetchPublicPageText(OrEmpty(req.origin), Nets[req.net]).sent ELSE <<>>),
     fetched |-> <<req.data.website_url>>
                 \o (IF OrEmpty(req.origin) # "" THEN <<OrEmpty(req.origin)>> ELSE <<>>)]

\* the requests a client sends
Authorizations == {None, Some(""), Some("Token cust_demo_123"),
                   Some("Bearer cust_live_acme_9xK2"), Some("Bearer  cust_demo_123 "),
                   Some("Bearer cust_live_acme_9xk2")}

Origins == {None, Some("https://Acme.com"), Some("https://acme.com.attacker.net"),
            Some("https://notacme.com"), Some("http://localhost:3000"),
            Some("https://user.github.io")}

Bodies == [website_url : {"example.com", "http://intranet.corp/"},
           industry : {"Marketing Agency"},
           goal : {"Lead Generation", "Retention"}]

ServerNets == {"healthy", "outage", "redirect-internal"}

Requests ==
    [path : {"/recommend"}, authorization : Authorizations, origin : Origins,
     data : Bodies, net : ServerNets]
    \cup [path : {"/usage/me"}, authorization : Authorizations, origin : Origins]
    \cup [path : {"/health"}]

\* the requests the server answers before the model stops
MaxRequests == 2

\* no request has arrived yet
NoRequest == [path |-> ""]

Init ==
    /\ USAGE_COUNTER = Idle
    /\ served = Idle
    /\ handled = 0
    /\ request = NoRequest
    /\ response = Pending
    /\ wire = <<>>
    /\ fetched = <<>>
    /\ threads = Idle

\* a request arrives once the one before it is answered
Receive ==
    /\ request = NoRequest \/ response.returned
    /\ handled < MaxRequests
    /\ request' \in Requests
    /\ response' = Pending
    /\ wire' = <<>>
    /\ fetched' = <<>>
    /\ UNCHANGED <<USAGE_COUNTER, served, handled, threads>>

\* what a handler's call of verify_api_key does to the state: the counter
\* moves when the key is accepted, and the response is the HTTPException's
\* when it is not
Rejected(auth) ==
    /\ ~auth.ok
    /\ response' = Returned([status |-> auth.status, detail |-> auth.detail])
    /\ wire' = <<>>
    /\ fetched' = <<>>
    /\ UNCHANGED <<USAGE_COUNTER, served>>

\* POST /recommend
Recommend ==
    /\ request.path = "/recommend"
    /\ ~response.returned
    /\ \/ Rejected(verify_api_key(request.authorization, request.origin))
       \/ /\ verify_api_key(request.authorization, request.origin).ok
          /\ USAGE_COUNTER' =
                Bump(USAGE_COUNTER,
                     verify_api_key(request.authorization, request.origin).value)
          /\ response' = Returned(RecommendOutcome(
                verify_api_key(request.authorization, request.origin).value,
                request).response)
          /\ wire' = RecommendOutcome(
                verify_api_key(request.authorization, request.origin).value, request).wire
          /\ fetched' = RecommendOutcome(
                verify_api_key(request.authorization, request.origin).value,
                request).fetched
          /\ served' = IF response'.value.status = 200
                       THEN Bump(served, response'.value.body.client) ELSE served
    /\ handled' = handled + 1
    /\ UNCHANGED <<request, threads>>

\* GET /usage/me
UsageMe ==
    /\ request.path = "/usage/me"
    /\ ~response.returned
    /\ \/ Rejected(verify_api_key(request.authorization, request.origin))
       \/ /\ verify_api_key(request.authorization, request.origin).ok
          /\ USAGE_COUNTER' =
                Bump(USAGE_COUNTER,
                     verify_api_key(request.authorization, request.origin).value)
          /\ response' = Returned(
                [status |-> 200,
                 body |-> [client |->
                               verify_api_key(request.authorization,
                                              request.origin).value,
                           usage |->
                               Count(USAGE_COUNTER',
                                     verify_api_key(request.authorization,
                                                    request.origin).value)]])
          /\ served' = Bump(served, response'.value.body.client)
          /\ wire' = <<>>
          /\ fetched' = <<>>
    /\ handled' = handled + 1
    /\ UNCHANGED <<request, threads>>

\* GET /health
Health ==
    /\ request.path = "/health"
    /\ ~response.returned
    /\ response' = Returned([status |-> 200, body |-> [status |-> "ok"]])
    /\ handled' = handled + 1
    /\ UNCHANGED <<USAGE_COUNTER, served, request, wire, fetched, threads>>

Next == Receive \/ Recommend \/ UsageMe \/ Health

Spec == Init /\ [][Next]_vars

\* the last request went through verify_api_key and has been answered
Answered == response.returned /\ request.path \in {"/recommend", "/usage/me"}

\* the Authorization header of the request is "Bearer " and something
HasBearer ==
    /\ request.authorization \notin {None, Some("")}
    /\ Slice(request.authorization[1], 1, 7) = "Bearer "

\* the registry entries whose key the request presents
Presented ==
    IF HasBearer
    THEN {data \in Range(API_KEYS) : data.key = BearerKey(request.authorization[1])}
    ELSE {}

\* the entry restricts the origins, and the Origin header of the request holds
\* none of its domains (case ignored; a missing header holds nothing)
LockRefuses(data) ==
    /\ data.domains # <<>>
    /\ "*" \notin Range(data.domains)
    /\ \A d \in Range(data.domains) : ~ContainsIgnoringCase(OrEmpty(request.origin), d)

\* an HTTP error response
Error(status, detail) == [status |-> status, detail |-> detail]

(***************************************************************************)
(* C1: verify_api_key classifies every request into exactly one outcome,   *)
(* in this order: no or an empty Authorization header, 401 "Missing API    *)
(* key"; a header that does not start with "Bearer ", 401 "Invalid auth    *)
(* format"; a key that is no registry entry's, 403 "Invalid API key"; a    *)
(* registry key whose domain test fails, 403 "Domain not allowed for this  *)
(* API key"; otherwise the request is answered as the one client whose key *)
(* was presented.  (Which origins pass the domain test is C3's matter: the *)
(* test here is the containment the registry check makes.)                 *)
(***************************************************************************)
C1_Classification ==
    Answered =>
        CASE request.authorization \in {None, Some("")} ->
                response.value = Error(401, "Missing API key")
          [] request.authorization \notin {None, Some("")} /\ ~HasBearer ->
                response.value = Error(401, "Invalid auth format")
          [] HasBearer /\ Presented = {} ->
                response.value = Error(403, "Invalid API key")
          [] HasBearer /\ Presented # {} /\ (\E data \in Presented : LockRefuses(data)) ->
                response.value = Error(403, "Domain not allowed for this API key")
          [] OTHER ->
                /\ Cardinality(Presented) = 1
                /\ response.value.status = 200
                /\ \A data \in Presented : response.value.body.client = data.client

\* a well-formed header with a registry key (spaces around it) was refused on
\* the domain test, the fourth check
C1_Witness ==
    /\ Answered
    /\ request.authorization = Some("Bearer  cust_demo_123 ")
    /\ request.origin = Some("https://notacme.com")
    /\ response.value = Error(403, "Domain not allowed for this API key")

(***************************************************************************)
(* C2 as claimed: a request that carries a valid registry key and no       *)
(* Origin header is authenticated, not rejected with 403, for every client *)
(* of the registry.                                                        *)
(***************************************************************************)
C2_NoOriginAuthenticated ==
    (Answered /\ Presented # {} /\ request.origin = None) =>
        response.value.status = 200

(***************************************************************************)
(* C2 as amended: the domain test is applied whether or not the Origin     *)
(* header is present.  A request with a valid registry key and no Origin   *)
(* header is rejected with 403 "Domain not allowed for this API key" when  *)
(* the client's allowed-domain list is non-empty and has no "*" (so for    *)
(* both clients of the registry), and is authenticated only otherwise.     *)
(***************************************************************************)
C2_NoOriginRejected ==
    (Answered /\ Presented # {} /\ request.origin = None) =>
        \A data \in Presented :
            IF data.domains # <<>> /\ "*" \notin Range(data.domains)
            THEN response.value = Error(403, "Domain not allowed for this API key")
            ELSE response.value.status = 200 /\ response.value.body.client = data.client

\* the acme key, sent without an Origin header, was refused
C2_Witness ==
    /\ Answered
    /\ request.authorization = Some("Bearer cust_live_acme_9xK2")
    /\ request.origin = None
    /\ response.value = Error(403, "Domain not allowed for this API key")

\* s.endswith(suffix)
EndsWith(s, suffix) == Slice(s, Len(s) - Len(suffix) + 1, Len(s)) = suffix /\ Len(s) >= Len(suffix)

\* the Origin header of the request names one of the entry's domains as its
\* host: the host is the domain, or a name under it
OriginNames(data) ==
    /\ request.origin # None
    /\ UrlParse(request.origin[1]).hostname # None
    /\ \E d \in Range(data.domains) :
          \/ UrlParse(request.origin[1]).hostname[1] = Lower(d)
          \/ EndsWith(UrlParse(request.origin[1]).hostname[1], "." \o Lower(d))

(***************************************************************************)
(* C3: domain lock.  For a client whose allowed-domain list is non-empty   *)
(* and has no "*", a request with that client's key is authenticated only  *)
(* when the Origin header names one of the allowed domains as its host; an *)
(* origin whose host merely contains an allowed domain as a substring is   *)
(* rejected with 403.                                                      *)
(***************************************************************************)
C3_DomainLock ==
    Answered =>
        \A data \in Presented :
            (data.domains # <<>> /\ "*" \notin Range(data.domains) /\ ~OriginNames(data))
                => response.value.status = 403

\* the clients of the registry
Clients == {API_KEYS[i].client : i \in 1..Len(API_KEYS)}

\* the counts agree with the requests answered as each client
C4_Counts == \A c \in Clients : Count(USAGE_COUNTER, c) = Count(served, c)

\* a handler's step: an authenticated answer adds exactly 1 to its client's
\* count and nothing to the others, /usage/me reports the count with the
\* request itself in it, and any other answer leaves every count as it was
C4_Step ==
    (~response.returned /\ response'.returned) =>
        IF request.path \in {"/recommend", "/usage/me"} /\ response'.value.status = 200
        THEN /\ \A c \in Clients :
                  Count(USAGE_COUNTER', c) =
                      Count(USAGE_COUNTER, c)
                      + (IF c = response'.value.body.client THEN 1 ELSE 0)
             /\ request.path = "/usage/me" =>
                  response'.value.body.usage =
                      Count(served, response'.value.body.client) + 1
        ELSE /\ USAGE_COUNTER' = USAGE_COUNTER
             /\ request.path # "/health" => response'.value.status \in {401, 403}

(***************************************************************************)
(* C4: with requests handled one at a time, USAGE_COUNTER[c] equals the    *)
(* number of requests so far that were authenticated as client c: every    *)
(* successful verify_api_key adds exactly 1 to that client's count and     *)
(* leaves the others, a request that fails authentication (401 or 403)     *)
(* leaves all counts unchanged, and /usage/me returns the count with the   *)
(* /usage/me request itself included.                                      *)
(***************************************************************************)
C4_UsageCount == [](C4_Counts) /\ [][C4_Step]_vars

\* the second authenticated request of a client is a /usage/me, which
\* reports 2
C4_Witness ==
    /\ response.returned
    /\ request.path = "/usage/me"
    /\ response.value.status = 200
    /\ response.value.body.usage = 2
    /\ Count(USAGE_COUNTER, response.value.body.client) = 2

\* the fetch of recommend for a url, on the network of the request
FetchFor(url) == FetchPublicPageText(url, Nets[request.net])

(***************************************************************************)
(* C7: for every authenticated /recommend request, a failed target fetch   *)
(* or embed fetch never fails the request.  The response is a 200 with the *)
(* client, its branding and ranked_services; a failed fetch contributes    *)
(* empty title, description and snippet to the scoring and its error text  *)
(* is in debug.target_fetch_error or debug.embed_fetch_error; a failed     *)
(* target fetch does not prevent the embed fetch; and the embed fetch is   *)
(* attempted only when the Origin header is non-empty.                     *)
(***************************************************************************)
C7_FetchFailuresTolerated ==
    (response.returned /\ request.path = "/recommend"
     /\ verify_api_key(request.authorization, request.origin).ok) =>
        /\ response.value.status = 200
        /\ \A data \in Presented :
              /\ response.value.body.client = data.client
              /\ response.value.body.branding = data.branding
        /\ response.value.body.debug.target_fetch_error =
              (IF FetchFor(request.data.website_url).ok THEN ""
               ELSE FetchFor(request.data.website_url).error)
        /\ fetched = IF OrEmpty(request.origin) # ""
                     THEN <<request.data.website_url, request.origin[1]>>
                     ELSE <<request.data.website_url>>
        /\ response.value.body.debug.embed_fetch_error =
              (IF Len(fetched) = 2 /\ ~FetchFor(fetched[2]).ok
               THEN FetchFor(fetched[2]).error ELSE "")
        /\ response.value.body.ranked_services =
              rank_services(
                  request.data.industry, request.data.goal,
                  IF FetchFor(request.data.website_url).ok
                  THEN extract_signals_from_html(FetchFor(request.data.website_url).value)
                  ELSE [title |-> "", description |-> "", snippet |-> ""],
                  IF Len(fetched) = 2 /\ FetchFor(fetched[2]).ok
                  THEN extract_signals_from_html(FetchFor(fetched[2]).value)
                  ELSE [title |-> "", description |-> "", snippet |-> ""])

\* both fetches failed (an intranet target, a localhost origin) and the
\* request was answered with a ranking and both error texts
C7_Witness ==
    /\ response.returned
    /\ request.path = "/recommend"
    /\ response.value.status = 200
    /\ response.value.body.client = "demo"
    /\ fetched = <<"http://intranet.corp/", "http://localhost:3000">>
    /\ response.value.body.debug.target_fetch_error = "Could not resolve hostname safely"
    /\ response.value.body.debug.embed_fetch_error = "Localhost URLs are not allowed"
    /\ Len(response.value.body.ranked_services) = 5

(***************************************************************************)
(* The server with its handlers running at once.  recommend is an async    *)
(* def and runs on the event-loop thread (thread 0); usage_me is a plain   *)
(* def and runs on a worker thread of the thread pool.  Each thread        *)
(* answers one request.  USAGE_COUNTER[client] += 1 is a read of the       *)
(* entry (which a defaultdict creates with 0 when it is missing), an add,  *)
(* and a write back; no lock covers the three, so another thread may run   *)
(* between the read and the write.                                         *)
(***************************************************************************)
\* the worker threads of the pool
MaxWorkers == 2

ThreadIds == 0..MaxWorkers

\* the requests that arrive together: /recommend for the event loop,
\* /usage/me for the workers
LoopRequests ==
    [path : {"/recommend"},
     authorization : {Some("Bearer cust_live_acme_9xK2"), Some("Bearer  cust_demo_123 ")},
     origin : {Some("https://Acme.com"), Some("https://user.github.io")},
     data : [website_url : {"example.com"}, industry : {"Marketing Agency"},
             goal : {"Lead Generation"}],
     net : {"outage"}]

WorkerRequests ==
    [path : {"/usage/me"},
     authorization : {Some("Bearer cust_live_acme_9xK2"), Some("Bearer  cust_demo_123 ")},
     origin : {Some("https://Acme.com"), Some("https://user.github.io")}]

\* a thread about to run its handler on req
Started(req) == [pc |-> "start", req |-> req, client |-> "", tmp |-> 0, resp |-> Pending]

InitConc ==
    /\ USAGE_COUNTER = Idle
    /\ served = Idle
    /\ handled = 0
    /\ request = NoRequest
    /\ response = Pending
    /\ wire = <<>>
    /\ fetched = <<>>
    /\ threads \in {th \in [ThreadIds -> {Started(r) : r \in LoopRequests \cup WorkerRequests}] :
                       /\ th[0].req \in LoopRequests
                       /\ \A t \in ThreadIds \ {0} : th[t].req \in WorkerRequests}

\* verify_api_key up to the read of USAGE_COUNTER[client]: the checks, which
\* touch nothing shared, and then the read
VerifyAndLoad(t) ==
    /\ threads[t].pc = "start"
    /\ \/ /\ ~verify_api_key(threads[t].req.authorization, threads[t].req.origin).ok
          /\ threads' = [threads EXCEPT
                ![t].pc = "done",
                ![t].resp = Returned(
                    [status |-> verify_api_key(threads[t].req.authorization,
                                               threads[t].req.origin).status,
                     detail |-> verify_api_key(threads[t].req.authorization,
                                               threads[t].req.origin).detail])]
          /\ UNCHANGED USAGE_COUNTER
       \/ /\ verify_api_key(threads[t].req.authorization, threads[t].req.origin).ok
          /\ threads' = [threads EXCEPT
                ![t].pc = "loaded",
                ![t].client = verify_api_key(threads[t].req.authorization,
                                             threads[t].req.origin).value,
                ![t].tmp = Count(USAGE_COUNTER,
                                 verify_api_key(threads[t].req.authorization,
                                                threads[t].req.origin).value)]
          /\ USAGE_COUNTER' =
                [c \in DOMAIN USAGE_COUNTER
                       \cup {verify_api_key(threads[t].req.authorization,
                                            threads[t].req.origin).value} |->
                    Count(USAGE_COUNTER, c)]
    /\ UNCHANGED <<served, handled, request, response, wire, fetched>>

\* the write back of the += 1, and the return of verify_api_key
Store(t) ==
    /\ threads[t].pc = "loaded"
    /\ USAGE_COUNTER' = [USAGE_COUNTER EXCEPT ![threads[t].client] = threads[t].tmp + 1]
    /\ threads' = [threads EXCEPT ![t].pc = "stored"]
    /\ UNCHANGED <<served, handled, request, response, wire, fetched>>

\* the rest of the handler: recommend fetches, ranks and answers; usage_me
\* reads the counter and answers
Respond(t) ==
    /\ threads[t].pc = "stored"
    /\ threads' = [threads EXCEPT
          ![t].pc = "done",
          ![t].resp = Returned(
              IF threads[t].req.path = "/recommend"
              THEN RecommendOutcome(threads[t].client, threads[t].req).response
              ELSE [status |-> 200,
                    body |-> [client |-> threads[t].client,
                              usage |-> Count(USAGE_COUNTER, threads[t].client)]])]
    /\ UNCHANGED <<USAGE_COUNTER, served, handled, request, response, wire, fetched>>

NextConc == \E t \in ThreadIds : VerifyAndLoad(t) \/ Store(t) \/ Respond(t)

SpecConc == InitConc /\ [][NextConc]_vars

\* the requests of the concurrent run that were answered as client c
AuthenticatedAs(c) ==
    {t \in ThreadIds : /\ threads[t].resp.returned
                       /\ threads[t].resp.value.status = 200
                       /\ threads[t].resp.value.body.client = c}

(***************************************************************************)
(* C10: no lost updates under concurrency.  When several authenticated     *)
(* requests for the same client are handled concurrently, the read-add-    *)
(* write of USAGE_COUNTER[client] += 1 interleaved in any order, the final *)
(* count equals the number of authenticated requests.                      *)
(***************************************************************************)
C10_NoLostUpdate ==
    (\A t \in ThreadIds : threads[t].pc = "done") =>
        \A c \in Clients : Count(USAGE_COUNTER, c) = Cardinality(AuthenticatedAs(c))

=============================================================================
